---- MODULE Spec2Model ----
(***************************************************************************)
(* Model of src/app.py: the Flask search application (login, logout and    *)
(* the index view that validates the two form fields, runs the lookup      *)
(* queries against the data store, summarises and renders).                *)
(*                                                                         *)
(* A Python str is a sequence of characters; a character is a one-element  *)
(* token ("4", "a", " ", "U+00B2").  None is the empty tuple and a present *)
(* optional value v is <<v>>.  A dict is a function whose DOMAIN is its    *)
(* key set, in the code's insertion order where the order matters.         *)
(***************************************************************************)
EXTENDS Integers, Sequences, FiniteSets, TLC

\* ------------------------------------------------------------- bounds

\* external committed writes (row inserts and deletes) during one run
MaxWrites == 2
\* the validator is exercised on phones of up to PhoneLen + MaxExtraLen characters
MaxExtraLen == 1
\* the summarizer is exercised on row sets of up to MaxSummaryRows rows
MaxSummaryRows == 2

\* --------------------------------------------------------- characters

None == <<>>
Some(v) == <<v>>

\* "U+00B2" is SUPERSCRIPT TWO and "U+0663" is ARABIC-INDIC DIGIT THREE:
\* neither is one of 0-9, and str.isdigit() is True for both.
AsciiDigits == {"0", "1", "2", "3", "4", "5", "6", "7", "8", "9"}
UnicodeDigits == {"U+00B2", "U+0663"}
Whitespace == {" "}

\* str.isdigit() on one character
CharIsDigit(c) == c \in AsciiDigits \cup UnicodeDigits

\* str.isdigit(): every character is a digit and there is at least one
isdigit(s) == Len(s) > 0 /\ \A i \in 1..Len(s) : CharIsDigit(s[i])

RECURSIVE lstrip(_)
lstrip(s) == IF s # <<>> /\ Head(s) \in Whitespace THEN lstrip(Tail(s)) ELSE s

RECURSIVE rstrip(_)
rstrip(s) ==
    IF s # <<>> /\ s[Len(s)] \in Whitespace
    THEN rstrip(SubSeq(s, 1, Len(s) - 1))
    ELSE s

\* str.strip()
strip(s) == rstrip(lstrip(s))

\* ------------------------------------------------------ configuration

ADMIN_USERNAME == <<"a", "d", "m", "i", "n">>
ADMIN_PASSWORD == <<"a", "d", "m", "i", "n">>

\* ---------------------------------------------------------- validator

MsgConflicting == "Please search by UID or phone, not both at the same time."
MsgMissing == "Enter a UID or an 8-digit phone number to search."
MsgMalformed == "Phone number must be exactly 8 digits."
MsgDbError == "An error occurred while fetching data. Please try again later."

PhoneLen == 8

validate_inputs(u, p) ==
    IF u # <<>> /\ p # <<>> THEN Some(MsgConflicting)
    ELSE IF u = <<>> /\ p = <<>> THEN Some(MsgMissing)
    ELSE IF p # <<>> /\ (~isdigit(p) \/ Len(p) # PhoneLen) THEN Some(MsgMalformed)
    ELSE None

\* --------------------------------------------------------- data store

\* The relational store is outside the program.  A row is [id, key, val]:
\* key is the column the by-identifier lookups filter on (profile_id,
\* post_user_id, com_user_id, reac_user_id, uid) and val is the table's other
\* column the program reads (reac_type, eightdigitnumbers; "-" otherwise).
Tables == {"profiles", "posts", "comments", "reactions", "fbphone"}

U42 == <<"4", "2">>
U7 == <<"7">>
Phone42 == <<"9", "9", "1", "1", "2", "2", "3", "3">>
Phone7 == <<"8", "8", "0", "0", "1", "1", "2", "2">>

MkRow(i, k, v) == [id |-> i, key |-> k, val |-> v]

\* every row an external writer may insert or delete
RowPool ==
    [profiles  |-> {MkRow(1, U42, "-")},
     posts     |-> {MkRow(1, U42, "-"), MkRow(2, U42, "-"), MkRow(3, U7, "-")},
     comments  |-> {MkRow(1, U42, "-")},
     reactions |-> {MkRow(1, U42, "like"), MkRow(2, U42, "love"),
                    MkRow(3, U42, "like"), MkRow(4, U7, "like")},
     fbphone   |-> {MkRow(1, U42, Phone42), MkRow(2, U7, Phone7)}]

\* the rows present when the application starts
InitialStore ==
    [profiles  |-> {MkRow(1, U42, "-"), MkRow(2, U7, "-")},
     posts     |-> {MkRow(1, U42, "-"), MkRow(3, U7, "-")},
     comments  |-> {},
     reactions |-> {MkRow(1, U42, "like"), MkRow(2, U42, "love"), MkRow(4, U7, "like")},
     fbphone   |-> {MkRow(1, U42, Phone42)}]

\* cursor.description of a SELECT * on each table
Columns ==
    [profiles  |-> <<"id", "profile_id">>,
     posts     |-> <<"id", "post_user_id">>,
     comments  |-> <<"id", "com_user_id">>,
     reactions |-> <<"id", "reac_user_id", "reac_type">>,
     fbphone   |-> <<"id", "uid", "eightdigitnumbers">>]

\* cursor.fetchall(): the matching rows as a list (here in id order)
RECURSIVE fetchall(_)
fetchall(S) ==
    IF S = {} THEN <<>>
    ELSE LET r == CHOOSE x \in S : \A y \in S : x.id <= y.id
         IN <<r>> \o fetchall(S \ {r})

SqlPhone == "SELECT * FROM fbphone WHERE eightdigitnumbers = %s"
SqlAggregate == "SELECT reac_type, COUNT(*) AS cnt FROM reactions WHERE reac_user_id = %s GROUP BY reac_type ORDER BY cnt DESC"

\* mutant of LookupKeys: the fbphone entry is missing from lookup_queries
LookupKeysWithoutFbphone == <<"profiles", "posts", "comments", "reactions">>

\* lookup_queries of query_by_uid: the keys in the dict's insertion order
LookupKeys == <<"profiles", "posts", "comments", "reactions", "fbphone">>

LookupSql ==
    [profiles  |-> "SELECT * FROM profiles WHERE profile_id = %s",
     posts     |-> "SELECT * FROM posts WHERE post_user_id = %s",
     comments  |-> "SELECT * FROM comments WHERE com_user_id = %s",
     reactions |-> "SELECT * FROM reactions WHERE reac_user_id = %s",
     fbphone   |-> "SELECT * FROM fbphone WHERE uid = %s"]

\* the rows "SELECT * FROM <t> WHERE <key column> = param" returns on store s
SelectByKey(s, t, param) == fetchall({r \in s[t] : r.key = param})

\* the rows the phone-number equality query returns on store s
SelectByPhone(s, param) == fetchall({r \in s["fbphone"] : r.val = param})

ReactionTypes == {r.val : r \in RowPool["reactions"]}

\* mutant of GroupCount: the aggregate query without its WHERE clause
GroupCountAllUsers(s, param, ty) ==
    Cardinality({r \in s["reactions"] : r.val = ty})

\* the groups of the aggregate query on store s: reac_type -> COUNT(*)
GroupCount(s, param, ty) ==
    Cardinality({r \in s["reactions"] : r.key = param /\ r.val = ty})

\* every answer the aggregate query may give on store s: one (reac_type, cnt)
\* tuple per type that occurs, ordered by cnt descending; the order among
\* equal counts is the store's choice.
SelectAggregate(s, param) ==
    LET present == {ty \in ReactionTypes : GroupCount(s, param, ty) > 0}
        n == Cardinality(present)
    IN {q \in [1..n -> present \X (1..Cardinality(s["reactions"]))] :
          /\ \A i \in 1..n : q[i][2] = GroupCount(s, param, q[i][1])
          /\ \A i, j \in 1..n : i < j => q[i][1] # q[j][1] /\ q[i][2] >= q[j][2]}

\* ------------------------------------------------------ pure functions

\* dict.get(key, default)
DictGet(d, k, default) == IF k \in DOMAIN d THEN d[k] ELSE default

\* d[k] = v on a dict
DictSet(d, k, v) == [x \in DOMAIN d \cup {k} |-> IF x = k THEN v ELSE d[x]]

\* mutant of summarize_profile_activity: reaction_count reads the comments
summarize_counting_comments_twice(res) ==
    [post_count     |-> Len(DictGet(res, "posts", <<>>)),
     comment_count  |-> Len(DictGet(res, "comments", <<>>)),
     reaction_count |-> Len(DictGet(res, "comments", <<>>))]

summarize_profile_activity(res) ==
    [post_count     |-> Len(DictGet(res, "posts", <<>>)),
     comment_count  |-> Len(DictGet(res, "comments", <<>>)),
     reaction_count |-> Len(DictGet(res, "reactions", <<>>))]

\* the list comprehension of fetch_reaction_stats over the fetched tuples
ReactionStatsOf(tuples) ==
    [i \in 1..Len(tuples) |-> [type |-> tuples[i][1], count |-> tuples[i][2]]]

\* -------------------------------------------------------------- state

VARIABLES
    is_authenticated,  \* session["is_authenticated"]
    route,             \* the endpoint of the request being handled
    pc,                \* the handler's position
    uid, phone,        \* index's locals: the stripped form fields
    validation_error,  \* index's local
    results, column_names, profile_summary, reaction_stats,  \* index's locals
    flashes,           \* the (message, category) pairs flashed by this request
    logged,            \* app.logger.error was called by this request
    response,          \* what the request returned
    conn, cur,         \* the connection and the cursor: "none", "open", "closed"
    txn,               \* the connection's transaction
    exc,               \* a psycopg2.Error is propagating
    li,                \* query_by_uid's loop: lookups completed
    qlog,              \* the statements this request handed to cursor.execute
    calls,             \* the functions of the core this request entered
    db,                \* the store's committed rows
    writes,            \* external writes so far
    isolation,         \* the store's transaction isolation (not set by the code)
    snapshot,          \* the transaction's snapshot under repeatable read
    reactions_changed  \* an external writer changed the reactions rows of uid
                       \* after this request's reactions lookup

vars ==
    <<is_authenticated, route, pc, uid, phone, validation_error, results,
      column_names, profile_summary, reaction_stats, flashes, logged, response,
      conn, cur, txn, exc, li, qlog, calls, db, writes, isolation, snapshot,
      reactions_changed>>

storeVars == <<db, writes, isolation>>
bundleVars == <<uid, phone, results, column_names, profile_summary, reaction_stats>>
dbHandleVars == <<conn, cur, txn, snapshot>>

EmptyDict == <<>>

\* the raw form fields a browser may post (request.form.get(..., ""))
FormUids == {<<>>, U42, <<" ", "4", "2", " ">>, U7, <<" ">>}
FormPhones ==
    {<<>>, Phone42, <<"1", "2", "3">>, Phone7 \o <<" ">>,
     <<"1", "2", "3", "4", "5", "6", "7", "U+00B2">>}
FormUsernames == {<<" ">> \o ADMIN_USERNAME \o <<" ">>, <<"x">>}
FormPasswords == {ADMIN_PASSWORD, ADMIN_PASSWORD \o <<" ">>}

\* the per-request bookkeeping at the start of a request
FreshRequest(r) ==
    /\ route' = r
    /\ logged' = FALSE
    /\ conn' = "none"
    /\ cur' = "none"
    /\ txn' = "none"
    /\ exc' = FALSE
    /\ li' = 0
    /\ qlog' = <<>>
    /\ snapshot' = None
    /\ reactions_changed' = FALSE

\* index()'s locals as lines 128-133 initialise them
FreshLocals ==
    /\ results' = EmptyDict
    /\ column_names' = EmptyDict
    /\ profile_summary' = None
    /\ reaction_stats' = <<>>

\* a request to another endpoint has none of index()'s locals
NoIndexLocals ==
    /\ FreshLocals
    /\ uid' = <<>>
    /\ phone' = <<>>
    /\ validation_error' = None
    /\ calls' = {}

Init ==
    /\ is_authenticated = FALSE
    /\ route = "none"
    /\ pc = "idle"
    /\ uid = <<>>
    /\ phone = <<>>
    /\ validation_error = None
    /\ results = EmptyDict
    /\ column_names = EmptyDict
    /\ profile_summary = None
    /\ reaction_stats = <<>>
    /\ flashes = <<>>
    /\ logged = FALSE
    /\ response = "none"
    /\ conn = "none"
    /\ cur = "none"
    /\ txn = "none"
    /\ exc = FALSE
    /\ li = 0
    /\ qlog = <<>>
    /\ calls = {}
    /\ db = InitialStore
    /\ writes = 0
    /\ isolation \in {"read committed", "repeatable read"}
    /\ snapshot = None
    /\ reactions_changed = FALSE

\* a request is accepted when the previous one has returned
Accepting == pc \in {"idle", "done"}

\* ------------------------------------------------------ login, logout

Flash(msg, category) == <<[message |-> msg, category |-> category]>>

\* login(), POST
LoginPost(rawUsername, password) ==
    /\ Accepting
    /\ FreshRequest("login")
    /\ NoIndexLocals
    /\ LET username == strip(rawUsername)
       IN IF username = ADMIN_USERNAME /\ password = ADMIN_PASSWORD
          THEN /\ is_authenticated' = TRUE
               /\ flashes' = Flash("Signed in successfully.", "success")
               /\ response' = "redirect:index"
          ELSE /\ is_authenticated' = is_authenticated
               /\ flashes' = Flash("Invalid credentials. Please try again.", "danger")
               /\ response' = "login.html"
    /\ pc' = "done"
    /\ UNCHANGED storeVars

\* login(), GET
LoginGet ==
    /\ Accepting
    /\ FreshRequest("login")
    /\ NoIndexLocals
    /\ flashes' = <<>>
    /\ response' = "login.html"
    /\ pc' = "done"
    /\ UNCHANGED <<is_authenticated, storeVars>>

\* logout(): session.clear()
Logout ==
    /\ Accepting
    /\ FreshRequest("logout")
    /\ NoIndexLocals
    /\ is_authenticated' = FALSE
    /\ flashes' = Flash("You have been signed out.", "info")
    /\ response' = "redirect:login"
    /\ pc' = "done"
    /\ UNCHANGED storeVars

\* ------------------------------------------------------------- index

\* mutant of SessionAuthenticated: the decorator does not look at the session
NoSessionCheck == TRUE

\* login_required: session.get("is_authenticated") is truthy
SessionAuthenticated == is_authenticated = TRUE

\* mutant of Truthy: the early return of lines 140-151 is never taken
TruthyNever(opt) == FALSE

\* "if validation_error:" on an Optional[str]
Truthy(opt) == opt # None /\ opt[1] # ""

\* mutant of SearchMode: the two branches of lines 156-159 exchanged
SearchModeSwapped(u, p) ==
    IF p # <<>> THEN "uid" ELSE IF u # <<>> THEN "phone" ELSE "none"

\* the branch index() takes at lines 156-158
SearchMode(u, p) ==
    IF p # <<>> THEN "phone" ELSE IF u # <<>> THEN "uid" ELSE "none"

\* the store as a statement of this request's transaction sees it
Visible ==
    IF isolation = "repeatable read" /\ snapshot # None THEN snapshot[1] ELSE db

\* cursor.execute(sql, (param,)): the statement is handed to the store
Execute(sql, param) ==
    /\ qlog' = Append(qlog, [sql |-> sql, param |-> param])
    /\ txn' = "active"
    /\ snapshot' = IF snapshot = None THEN Some(db) ELSE snapshot

\* wrapped_view of login_required, not authenticated: redirect to login
IndexRedirect ==
    /\ Accepting
    /\ ~SessionAuthenticated
    /\ FreshRequest("index")
    /\ NoIndexLocals
    /\ flashes' = <<>>
    /\ response' = "redirect:login"
    /\ pc' = "done"
    /\ UNCHANGED <<is_authenticated, storeVars>>

\* index(), GET
IndexGet ==
    /\ Accepting
    /\ SessionAuthenticated
    /\ FreshRequest("index")
    /\ NoIndexLocals
    /\ flashes' = <<>>
    /\ response' = "index.html"
    /\ pc' = "done"
    /\ UNCHANGED <<is_authenticated, storeVars>>

\* index(), POST: lines 136-151
IndexPost(rawUid, rawPhone) ==
    /\ Accepting
    /\ SessionAuthenticated
    /\ FreshRequest("index")
    /\ FreshLocals
    /\ uid' = strip(rawUid)
    /\ phone' = strip(rawPhone)
    /\ calls' = {"validate_inputs"}
    /\ validation_error' = validate_inputs(uid', phone')
    /\ IF Truthy(validation_error')
       THEN /\ flashes' = Flash(validation_error'[1], "warning")
            /\ response' = "index.html"
            /\ pc' = "done"
       ELSE /\ flashes' = <<>>
            /\ response' = "none"
            /\ pc' = "connect"
    /\ UNCHANGED <<is_authenticated, storeVars>>

\* lines 154-155: get_db_connection() and conn.cursor()
Connect(ok) ==
    /\ pc = "connect"
    /\ calls' = calls \cup {"get_db_connection"}
    /\ IF ok
       THEN /\ conn' = "open"
            /\ cur' = "open"
            /\ exc' = FALSE
            /\ pc' = CASE SearchMode(uid, phone) = "phone" -> "phone"
                       [] SearchMode(uid, phone) = "uid" -> "lookup"
                       [] OTHER -> "exit"
       ELSE /\ exc' = TRUE
            /\ pc' = "except"
            /\ UNCHANGED <<conn, cur>>
    /\ UNCHANGED <<is_authenticated, route, bundleVars, validation_error, flashes,
                   logged, response, txn, li, qlog, storeVars, snapshot,
                   reactions_changed>>

\* query_phone
QueryPhone(ok) ==
    /\ pc = "phone"
    /\ calls' = calls \cup {"query_phone"}
    /\ Execute(SqlPhone, phone)
    /\ IF ok
       THEN /\ column_names' = DictSet(column_names, "fbphone", Columns["fbphone"])
            /\ results' = DictSet(results, "fbphone", SelectByPhone(Visible, phone))
            /\ exc' = FALSE
       ELSE /\ exc' = TRUE
            /\ UNCHANGED <<column_names, results>>
    /\ pc' = "exit"
    /\ UNCHANGED <<is_authenticated, route, uid, phone, profile_summary,
                   reaction_stats, validation_error, flashes, logged, response,
                   conn, cur, li, storeVars, reactions_changed>>

\* mutant of NextAfterLookup: lines 160 and 161 exchanged, the aggregate
\* query runs before the summary is computed
NextAfterLookupSkippingSummary(n) ==
    IF n = Len(LookupKeys) THEN "aggregate" ELSE "lookup"

\* where index() goes after n lookups have completed: the loop of
\* query_by_uid goes on, or query_by_uid returns to line 160
NextAfterLookup(n) == IF n = Len(LookupKeys) THEN "summarize" ELSE "lookup"

\* query_by_uid: one turn of the loop over lookup_queries
QueryByUid(ok) ==
    /\ pc = "lookup"
    /\ li < Len(LookupKeys)
    /\ LET key == LookupKeys[li + 1]
       IN /\ calls' = calls \cup {"query_by_uid"}
          /\ Execute(LookupSql[key], uid)
          /\ IF ok
             THEN /\ column_names' = DictSet(column_names, key, Columns[key])
                  /\ results' = DictSet(results, key, SelectByKey(Visible, key, uid))
                  /\ li' = li + 1
                  /\ exc' = FALSE
                  /\ pc' = NextAfterLookup(li + 1)
                  /\ reactions_changed' =
                        IF key = "reactions" THEN FALSE ELSE reactions_changed
             ELSE /\ exc' = TRUE
                  /\ pc' = "exit"
                  /\ UNCHANGED <<column_names, results, li, reactions_changed>>
    /\ UNCHANGED <<is_authenticated, route, uid, phone, profile_summary,
                   reaction_stats, validation_error, flashes, logged, response,
                   conn, cur, storeVars>>

\* line 160
Summarize ==
    /\ pc = "summarize"
    /\ calls' = calls \cup {"summarize_profile_activity"}
    /\ profile_summary' = Some(summarize_profile_activity(results))
    /\ pc' = "aggregate"
    /\ UNCHANGED <<is_authenticated, route, uid, phone, results, column_names,
                   reaction_stats, validation_error, flashes, logged, response,
                   dbHandleVars, exc, li, qlog, storeVars, reactions_changed>>

\* fetch_reaction_stats
FetchReactionStats(ok) ==
    /\ pc = "aggregate"
    /\ calls' = calls \cup {"fetch_reaction_stats"}
    /\ Execute(SqlAggregate, uid)
    /\ IF ok
       THEN /\ \E q \in SelectAggregate(Visible, uid) :
                 reaction_stats' = ReactionStatsOf(q)
            /\ exc' = FALSE
       ELSE /\ exc' = TRUE
            /\ UNCHANGED reaction_stats
    /\ pc' = "exit"
    /\ UNCHANGED <<is_authenticated, route, uid, phone, results, column_names,
                   profile_summary, validation_error, flashes, logged, response,
                   conn, cur, li, storeVars, reactions_changed>>

\* leaving the two with blocks of lines 154-155: the cursor's __exit__ closes
\* the cursor; the connection's __exit__ commits, or rolls back when an
\* exception is propagating, and leaves the connection open.
ExitWith(commitOk) ==
    /\ pc = "exit"
    /\ exc => commitOk
    /\ cur' = "closed"
    /\ conn' = conn
    /\ txn' = IF exc THEN "rolled back" ELSE IF commitOk THEN "committed" ELSE "failed"
    /\ exc' = (exc \/ ~commitOk)
    /\ pc' = IF exc' THEN "except" ELSE "render"
    /\ UNCHANGED <<is_authenticated, route, bundleVars, validation_error, flashes,
                   logged, response, li, qlog, calls, storeVars, snapshot,
                   reactions_changed>>

\* lines 162-164
HandleError ==
    /\ pc = "except"
    /\ logged' = TRUE
    /\ flashes' = flashes \o Flash(MsgDbError, "danger")
    /\ exc' = FALSE
    /\ pc' = "render"
    /\ UNCHANGED <<is_authenticated, route, bundleVars, validation_error, response,
                   dbHandleVars, li, qlog, calls, storeVars, reactions_changed>>

\* lines 166-175
Render ==
    /\ pc = "render"
    /\ response' = "index.html"
    /\ pc' = "done"
    /\ UNCHANGED <<is_authenticated, route, bundleVars, validation_error, flashes,
                   logged, dbHandleVars, exc, li, qlog, calls, storeVars,
                   reactions_changed>>

\* ---------------------------------------------------- external writers

\* another client of the store commits the insert or the delete of one row
ExternalWrite(t, r) ==
    /\ writes < MaxWrites
    /\ writes' = writes + 1
    /\ db' = [db EXCEPT ![t] = IF r \in @ THEN @ \ {r} ELSE @ \cup {r}]
    /\ reactions_changed' =
          (reactions_changed
             \/ (/\ t = "reactions"
                 /\ r.key = uid
                 /\ pc \in {"lookup", "summarize", "aggregate"}
                 /\ "reactions" \in DOMAIN results))
    /\ UNCHANGED <<is_authenticated, route, pc, bundleVars, validation_error,
                   flashes, logged, response, dbHandleVars, exc, li, qlog, calls,
                   isolation>>

Next ==
    \/ \E u \in FormUsernames, p \in FormPasswords : LoginPost(u, p)
    \/ LoginGet
    \/ Logout
    \/ IndexRedirect
    \/ IndexGet
    \/ \E u \in FormUids, p \in FormPhones : IndexPost(u, p)
    \/ \E ok \in BOOLEAN : Connect(ok)
    \/ \E ok \in BOOLEAN : QueryPhone(ok)
    \/ \E ok \in BOOLEAN : QueryByUid(ok)
    \/ Summarize
    \/ \E ok \in BOOLEAN : FetchReactionStats(ok)
    \/ \E ok \in BOOLEAN : ExitWith(ok)
    \/ HandleError
    \/ Render
    \/ \E t \in Tables : \E r \in RowPool[t] : ExternalWrite(t, r)

Spec == Init /\ [][Next]_vars

\* ------------------------------------------- the validator on its own

ValidatorChars == {"1", "a", "U+00B2"}
ValidatorPhones ==
    UNION {[1..n -> ValidatorChars] : n \in 0..(PhoneLen + MaxExtraLen)}
ValidatorUids == {<<>>, U42, <<" ">>}

InitValidate ==
    /\ is_authenticated = TRUE
    /\ route = "index"
    /\ pc = "validate"
    /\ uid \in ValidatorUids
    /\ phone \in ValidatorPhones
    /\ validation_error = None
    /\ results = EmptyDict
    /\ column_names = EmptyDict
    /\ profile_summary = None
    /\ reaction_stats = <<>>
    /\ flashes = <<>>
    /\ logged = FALSE
    /\ response = "none"
    /\ conn = "none"
    /\ cur = "none"
    /\ txn = "none"
    /\ exc = FALSE
    /\ li = 0
    /\ qlog = <<>>
    /\ calls = {}
    /\ db = InitialStore
    /\ writes = 0
    /\ isolation = "read committed"
    /\ snapshot = None
    /\ reactions_changed = FALSE

\* line 139: validate_inputs(uid, phone)
Validate ==
    /\ pc = "validate"
    /\ calls' = {"validate_inputs"}
    /\ validation_error' = validate_inputs(uid, phone)
    /\ pc' = "validated"
    /\ UNCHANGED <<is_authenticated, route, bundleVars, flashes, logged, response,
                   dbHandleVars, exc, li, qlog, storeVars, reactions_changed>>

SpecValidate == InitValidate /\ [][Validate]_vars

\* ------------------------------------------------------------- claims

\* the request was a search and its result bundle went to the template
BundleRendered == route = "index" /\ pc = "done" /\ response = "index.html"

ExecutedSql == {qlog[i].sql : i \in 1..Len(qlog)}

FiveTables == <<"profiles", "posts", "comments", "reactions", "fbphone">>

AllRowSetsEmpty == \A k \in DOMAIN results : results[k] = <<>>

ErrorMessageShown ==
    \E i \in 1..Len(flashes) : flashes[i].category = "danger" /\ flashes[i].message # ""

\* a statement of this request failed: the with block rolled the transaction back
StatementFailed == txn = "rolled back"

RowCount(res, k) == IF k \in DOMAIN res THEN Len(res[k]) ELSE 0

RECURSIVE SumCounts(_)
SumCounts(stats) ==
    IF stats = <<>> THEN 0 ELSE Head(stats).count + SumCounts(Tail(stats))

\* C1: after a failed lookup or aggregate statement of a by-identifier
\* search, the rendered bundle has only empty row sets and an error message.
C1_ErrorBundleEmpty ==
    (BundleRendered /\ uid # <<>> /\ phone = <<>> /\ StatementFailed)
        => (AllRowSetsEmpty /\ ErrorMessageShown)

\* C2: a submission that fails validation ends at once: no connection, no
\* cursor, no statement, nothing of the core but the validator entered, an
\* empty bundle and the validation message as the only flash.
C2_ValidationFailureIsLocal ==
    (route = "index" /\ validation_error # None)
        => /\ pc = "done"
           /\ response = "index.html"
           /\ conn = "none" /\ cur = "none" /\ txn = "none"
           /\ qlog = <<>>
           /\ calls = {"validate_inputs"}
           /\ DOMAIN results = {}
           /\ DOMAIN column_names = {}
           /\ profile_summary = None
           /\ reaction_stats = <<>>
           /\ validation_error[1] \in {MsgConflicting, MsgMissing, MsgMalformed}
           /\ flashes = Flash(validation_error[1], "warning")

C2_Witness ==
    /\ BundleRendered
    /\ validation_error = Some(MsgMalformed)
    /\ phone = <<"1", "2", "3">>

\* the reference classification of a (identifier, phone) pair: a well-formed
\* phone is exactly 8 characters, each one of 0-9
ReferenceClass(u, p) ==
    IF u # <<>> /\ p # <<>> THEN Some(MsgConflicting)
    ELSE IF u = <<>> /\ p = <<>> THEN Some(MsgMissing)
    ELSE IF p # <<>> /\ ~(Len(p) = 8 /\ \A i \in 1..Len(p) : p[i] \in AsciiDigits)
         THEN Some(MsgMalformed)
    ELSE None

\* C3: on every (identifier, phone) pair validate_inputs returns what the
\* reference classification gives: ConflictingInputs when both are non-empty,
\* MissingInput when both are empty, MalformedPhone when only the phone is
\* given and it is not exactly 8 characters of 0-9, success otherwise.
C3_ValidatorMatchesReference ==
    pc = "validated" => validation_error = ReferenceClass(uid, phone)

\* C4: a by-phone search executes nothing but the phone-number equality
\* query, leaves summary and stats unset and fills at most (on success
\* exactly) the fbphone row set; a by-identifier search never executes the
\* phone-number equality query.
C4_ModesKeepToTheirQueries ==
    (route = "index" /\ "validate_inputs" \in calls /\ validation_error = None)
        => /\ phone # <<>> =>
                /\ ExecutedSql \subseteq {SqlPhone}
                /\ profile_summary = None
                /\ reaction_stats = <<>>
                /\ DOMAIN results \subseteq {"fbphone"}
                /\ DOMAIN column_names = DOMAIN results
                /\ (BundleRendered /\ ~ErrorMessageShown) => DOMAIN results = {"fbphone"}
           /\ phone = <<>> => SqlPhone \notin ExecutedSql

C4_Witness ==
    /\ BundleRendered
    /\ phone = Phone42
    /\ qlog = <<[sql |-> SqlPhone, param |-> Phone42]>>
    /\ DOMAIN results = {"fbphone"}
    /\ Len(results["fbphone"]) = 1

\* C5: when a search request has returned, its connection and its cursor
\* are closed (or were never acquired).
C5_HandlesReleased ==
    (route = "index" /\ pc = "done")
        => (conn \in {"none", "closed"} /\ cur \in {"none", "closed"})

\* C6: a request to the search endpoint without an authenticated session is
\* redirected to the login page and enters nothing of the core.
C6_UnauthenticatedNeverRuns ==
    (route = "index" /\ ~is_authenticated)
        => /\ pc = "done"
           /\ response = "redirect:login"
           /\ calls = {}
           /\ validation_error = None
           /\ conn = "none" /\ cur = "none"
           /\ qlog = <<>>
           /\ DOMAIN results = {}

C6_Witness ==
    route = "index" /\ pc = "done" /\ ~is_authenticated /\ response = "redirect:login"

\* C7 as stated: every by-identifier lookup attempts all five table queries.
C7_AllFiveAlwaysAttempted ==
    (BundleRendered /\ "query_by_uid" \in calls)
        => \A i \in 1..Len(FiveTables) : LookupSql[FiveTables[i]] \in ExecutedSql

\* C7 amended: the five table queries are attempted in the order profiles,
\* posts, comments, reactions, fbphone; an empty result never stops the
\* lookup; the first failing query ends it, and the remaining ones are not
\* executed.  So all five are attempted exactly when none of the first four
\* fails.
C7_LookupStopsAtFirstFailure ==
    (route = "index" /\ "query_by_uid" \in calls)
        => /\ \A i \in 1..Len(qlog) :
                i <= Len(FiveTables) =>
                    qlog[i] = [sql |-> LookupSql[FiveTables[i]], param |-> uid]
           /\ li = Cardinality(DOMAIN results)
           /\ DOMAIN results = {FiveTables[i] : i \in 1..li}
           /\ pc = "lookup" => (li < Len(FiveTables) /\ Len(qlog) = li)
           /\ pc # "lookup" =>
                \/ li = Len(FiveTables)
                \/ (Len(qlog) = li + 1 /\ StatementFailed = (pc \in {"except", "render", "done"}))

C7_Witness ==
    /\ BundleRendered
    /\ "query_by_uid" \in calls
    /\ li = 2
    /\ Len(qlog) = 3
    /\ results["profiles"] # <<>>
    /\ ErrorMessageShown

\* the mappings of table names to row sets the summarizer is tried on: each
\* table absent, or present with 0..MaxSummaryRows rows
SummaryRowSets ==
    UNION {[1..n -> {MkRow(1, U42, "-")}] : n \in 0..MaxSummaryRows}

SummaryInputs ==
    UNION {[ks -> SummaryRowSets] : ks \in SUBSET {"profiles", "posts", "comments", "reactions"}}

CountsMatch(summary, res) ==
    /\ summary.post_count = RowCount(res, "posts")
    /\ summary.comment_count = RowCount(res, "comments")
    /\ summary.reaction_count = RowCount(res, "reactions")

SummarizeIsTotal ==
    \A m \in SummaryInputs : CountsMatch(summarize_profile_activity(m), m)

\* C8: a profile summary in a bundle counts the rows of the posts, comments
\* and reactions row sets of that bundle; and on every mapping of table names
\* to row sets (a table absent or with 0..MaxSummaryRows rows)
\* summarize_profile_activity yields those counts, 0 for an absent table.
C8_SummaryCountsRows ==
    /\ profile_summary # None => CountsMatch(profile_summary[1], results)
    /\ SummarizeIsTotal

C8_Witness ==
    /\ BundleRendered
    /\ profile_summary = Some([post_count |-> 2, comment_count |-> 0, reaction_count |-> 3])

\* C9: the aggregate query is executed only in a by-identifier search that
\* passed validation, as the sixth statement after the five lookups all
\* returned their rows and the summary was computed; and no statement is
\* executed twice in a request.
C9_AggregateLastAndOnce ==
    route = "index"
        => /\ SqlAggregate \in ExecutedSql =>
                /\ validation_error = None
                /\ uid # <<>> /\ phone = <<>>
                /\ Len(qlog) = Len(FiveTables) + 1
                /\ qlog[Len(qlog)] = [sql |-> SqlAggregate, param |-> uid]
                /\ \A i \in 1..Len(FiveTables) : qlog[i].sql = LookupSql[FiveTables[i]]
                /\ DOMAIN results = {FiveTables[i] : i \in 1..Len(FiveTables)}
                /\ profile_summary # None
           /\ \A i, j \in 1..Len(qlog) : i # j => qlog[i] # qlog[j]
           /\ (phone # <<>> \/ validation_error # None) => SqlAggregate \notin ExecutedSql

C9_Witness ==
    /\ BundleRendered
    /\ SqlAggregate \in ExecutedSql
    /\ Len(reaction_stats) = 2
    /\ ~ErrorMessageShown

\* C10 as stated: in a by-identifier bundle without a data-store error the
\* counts of the reaction stats sum to the summary's reaction_count.
C10_StatsSumToReactionCount ==
    (BundleRendered /\ profile_summary # None /\ ~ErrorMessageShown)
        => SumCounts(reaction_stats) = profile_summary[1].reaction_count

\* C10 amended: the same, provided no external writer inserted or deleted a
\* reactions row of that identifier between the request's reactions lookup
\* and its aggregate query.
C10_StatsSumWhenUndisturbed ==
    (BundleRendered /\ profile_summary # None /\ ~ErrorMessageShown /\ ~reactions_changed)
        => /\ SumCounts(reaction_stats) = profile_summary[1].reaction_count
           /\ profile_summary[1].reaction_count = Len(results["reactions"])

C10_Witness ==
    /\ BundleRendered
    /\ ~ErrorMessageShown
    /\ ~reactions_changed
    /\ writes > 0
    /\ profile_summary # None
    /\ SumCounts(reaction_stats) = 3

====
